---- MODULE Spec2Model ----
(***************************************************************************)
(* State-machine model of src/index.js: a polling bot that sweeps a fixed  *)
(* list of accounts forever and, for every claimable balance it finds,     *)
(* submits a claim+payment transaction wrapped in a fee-bump.              *)
(*                                                                         *)
(* The program is one logical thread.  `pc` is the position of that thread *)
(* in runAllBotsContinuously / processAccount; every await, every SDK call *)
(* and every branch of the source is one action.  The ledger (Horizon) and *)
(* the messaging API are the environment: each call to them returns one of *)
(* a small set of answers chosen nondeterministically.                     *)
(***************************************************************************)
EXTENDS Integers, Sequences, FiniteSets, TLC

(***************************************************************************)
(* Bounds of the model.                                                    *)
(***************************************************************************)
MaxAccounts == 2      \* longest account list read from accounts.json
MaxRecords == 2       \* most records one claimable-balance query returns
MaxCycles == 2        \* the cycle counter saturates here (the loop goes on)

(***************************************************************************)
(* Program constants.                                                      *)
(***************************************************************************)
FeeMultiplier == 120      \* (parseInt(baseFee) * 120)
QueryLimit == 10          \* .limit(10)
TimeoutSeconds == 60      \* .setTimeout(60)
RateLimitStatus == 429    \* e.response.status === 429
InnerFee == "0"           \* { fee: '0', networkPassphrase }
NetworkPassphrase == "Pi Network"

(***************************************************************************)
(* JavaScript values.  Undefined is an absent property; "" is the empty    *)
(* string.  Both are falsy, but only Undefined has no substring method.    *)
(***************************************************************************)
Undefined == "undefined"
Truthy(v) == v \notin {Undefined, ""}

GoodMain == "main words"
GoodSponsor == "sponsor words"
BadMnemonic == "not a mnemonic"
Receiver == "GRECEIVER"

Acct(n, m, s, r) ==
    [name |-> n, mainMnemonic |-> m, sponsorMnemonic |-> s, receiverAddress |-> r]

\* The entries accounts.json may hold: a complete entry, with and without the
\* optional name, and entries with one defect each.
AccountConfigs ==
    { Acct("bot", GoodMain, GoodSponsor, Receiver),
      Acct(Undefined, GoodMain, GoodSponsor, Receiver),
      Acct(Undefined, Undefined, GoodSponsor, Receiver),
      Acct(Undefined, "", GoodSponsor, Receiver),
      Acct("bot", Undefined, GoodSponsor, Receiver),
      Acct("bot", GoodMain, Undefined, Receiver),
      Acct("bot", GoodMain, GoodSponsor, Undefined),
      Acct("bot", BadMnemonic, GoodSponsor, Receiver),
      Acct("bot", GoodMain, BadMnemonic, Receiver) }

RECURSIVE SeqsUpTo(_, _)
SeqsUpTo(S, n) ==
    IF n = 0 THEN {<<>>}
    ELSE LET shorter == SeqsUpTo(S, n - 1)
         IN  shorter \cup {Append(q, x) : q \in {p \in shorter : Len(p) = n - 1}, x \in S}

\* What fs.readFileSync + JSON.parse can give at startup: no file, text that
\* is not JSON, a JSON value that is truthy and not iterable ({}, 5, true),
\* or a list.  A falsy JSON value (null, 0, false, "") takes the branch of
\* the empty list at line 133.
FileStates == {"missing", "malformed", "notalist", "parsed"}

\* process.env.TELEGRAM_BOT_TOKEN / TELEGRAM_CHAT_ID
EnvValues == [botToken : {Undefined, "TOKEN"}, chatId : {Undefined, "CHAT"}]

(***************************************************************************)
(* The environment's answers.                                              *)
(***************************************************************************)
BalanceIdPool == <<"BAL1", "BAL2", "BAL3", "BAL4">>
AmountPool == <<"10.5", "3.0000000", "0.0000001", "250">>

\* The ledger's pending balances for a claimant, oldest first; a query returns
\* the first n of them.
PendingBalance(i) == [id |-> BalanceIdPool[i], amount |-> AmountPool[i]]
RecordLists == { [i \in 1..n |-> PendingBalance(i)] : n \in 0..MaxRecords }

BaseFees == {100, 250}
SeqNums == {41, 42}
Hashes == {"hashA", "hashB"}

\* Errors a ledger call rejects with: an HTTP 429, an HTTP 400 carrying
\* extras.result_codes, and a transport error without a response.
ErrRateLimited ==
    [response |-> TRUE, status |-> RateLimitStatus, result_codes |-> FALSE,
     message |-> "Request failed with status code 429"]
ErrRejected ==
    [response |-> TRUE, status |-> 400, result_codes |-> TRUE,
     message |-> "Request failed with status code 400"]
ErrNetwork ==
    [response |-> FALSE, status |-> 0, result_codes |-> FALSE,
     message |-> "Network Error"]
LedgerErrors == {ErrRateLimited, ErrRejected, ErrNetwork}
ErrInvalidMnemonic ==
    [response |-> FALSE, status |-> 0, result_codes |-> FALSE,
     message |-> "Mnemonic tidak valid"]

\* An error together with the statement that threw it.
Thrown(err, where) ==
    [response |-> err.response, status |-> err.status,
     result_codes |-> err.result_codes, message |-> err.message, at |-> where]

(***************************************************************************)
(* Empty values of the local variables.                                    *)
(***************************************************************************)
NoIdentifier == [kind |-> "none", text |-> "none"]
NoKeypair == [publicKey |-> "none", secretKey |-> "none"]
NoAccount == [id |-> "none", sequence |-> 0]
NoTx == [type |-> "none"]
NoResult == [hash |-> "none"]
NoError == [response |-> FALSE, status |-> 0, result_codes |-> FALSE,
            message |-> "none", at |-> "none"]
NoLog == [cat |-> "none", who |-> NoIdentifier, detail |-> "none"]
NoMessage == [name |-> "none", amount |-> "none", hash |-> "none"]
NoFee == 0 - 1
NoCalls ==
    [query |-> 0, load |-> 0, fee |-> 0, submit |-> 0, accepted |-> 0,
     sign |-> 0, notify |-> 0, post |-> 0]
NoQuery == [claimant |-> "none", limit |-> 0, answer |-> "none"]

(***************************************************************************)
(* Pure functions.                                                         *)
(***************************************************************************)
\* bip39.validateMnemonic: the wordlist/checksum test of the library, here
\* membership in the set of well-formed phrases of the model.
ValidMnemonics == {GoodMain, GoodSponsor}
ValidateMnemonic(m) == m \in ValidMnemonics

\* Keypair.fromRawEd25519Seed(derivePath("m/44'/314159'/0'", seed)): a fixed
\* injective table from phrase to keypair.
DeriveKeypair(m) ==
    CASE m = GoodMain -> [publicKey |-> "GMAIN", secretKey |-> "SMAIN"]
      [] m = GoodSponsor -> [publicKey |-> "GSPONSOR", secretKey |-> "SSPONSOR"]
      [] OTHER -> [publicKey |-> "GJUNK", secretKey |-> "SJUNK"]

\* Lines 37-41 without the validation of line 36.
GetPiWalletAddressFromSeed_NoValidation(m) ==
    [ok |-> TRUE, wallet |-> DeriveKeypair(m)]

\* getPiWalletAddressFromSeed(mnemonic): the wallet, or the error it throws.

GetPiWalletAddressFromSeed(m) ==
    IF ~ValidateMnemonic(m)
    THEN [ok |-> FALSE, wallet |-> NoKeypair]
    ELSE [ok |-> TRUE, wallet |-> DeriveKeypair(m)]

\* Keypair.fromSecret(secretKey): the keypair that owns the secret.
KeypairFromSecret(secret) ==
    CASE secret = "SMAIN" -> [publicKey |-> "GMAIN", secretKey |-> "SMAIN"]
      [] secret = "SSPONSOR" -> [publicKey |-> "GSPONSOR", secretKey |-> "SSPONSOR"]
      [] OTHER -> [publicKey |-> "GJUNK", secretKey |-> "SJUNK"]

\* A string of line 99 is the sequence of its characters: a digit is the
\* number 0..9 it writes, any other character its code point.
MinusSign == 45
NaNText == <<78, 97, 78>>

\* The integers these operators are defined on: those of magnitude up to
\* 2^31 - 1.  A JavaScript number holds each of them exactly, the product of
\* two of them that stays in the range is exact, and its string has all its
\* digits; beyond 2^53 the * of line 99 rounds, and from 10^21 on the string
\* takes exponent form.  Outside the range the operators have no value.
MaxInteger == 2147483647
ExactIntegers == (0 - MaxInteger)..MaxInteger

\* A JavaScript number of line 99: an integer of the range, or NaN.
Num(n) == [nan |-> FALSE, value |-> n]
NaN == [nan |-> TRUE, value |-> 0]

\* The decimal digits of a non-negative integer of the range.
RECURSIVE DigitsOf(_)
DigitsOf(n) ==
    CASE n \in 0..9 -> <<n>>
      [] n \in 10..MaxInteger -> Append(DigitsOf(n \div 10), n % 10)

\* The string of an integer of the range: "-" before the digits of a
\* negative one.
NumberToString(n) ==
    CASE n \in 0..MaxInteger -> DigitsOf(n)
      [] n \in (0 - MaxInteger)..(0 - 1) -> <<MinusSign>> \o DigitsOf(0 - n)

\* Number.prototype.toString: "NaN" for NaN.
JsToString(x) == IF x.nan THEN NaNText ELSE NumberToString(x.value)

\* The * of line 99 by a positive integer: NaN times anything is NaN; the
\* product of integers is taken where it stays in the range.
Times(x, k) ==
    CASE x.nan -> NaN
      [] /\ ~x.nan
         /\ k \in 1..MaxInteger
         /\ x.value \in (0 - (MaxInteger \div k))..(MaxInteger \div k)
           -> Num(x.value * k)

\* parseInt(x) for an integer x of the range: x is converted to its string;
\* an optional sign, then the leading digits are read; NaN when no digit
\* follows.
RECURSIVE ParseDigits(_, _)
ParseDigits(s, acc) ==
    IF s = <<>> \/ Head(s) \notin 0..9 THEN acc
    ELSE ParseDigits(Tail(s), acc * 10 + Head(s))

ParseInt(x) ==
    LET s == NumberToString(x)
        negative == s # <<>> /\ Head(s) = MinusSign
        body == IF negative THEN Tail(s) ELSE s
    IN  IF body = <<>> \/ Head(body) \notin 0..9 THEN NaN
        ELSE IF negative THEN Num(0 - ParseDigits(body, 0))
        ELSE Num(ParseDigits(body, 0))

\* (parseInt(baseFee) * 120).toString()
FeeBumpFee(b) == JsToString(Times(ParseInt(b), FeeMultiplier))

\* account.name || account.mainMnemonic.substring(0, 15) + '...'
\* "throws" when the right operand is evaluated on an absent mainMnemonic.
AccountIdentifier(account) ==
    IF Truthy(account.name) THEN [kind |-> "name", text |-> account.name]
    ELSE IF account.mainMnemonic = Undefined THEN [kind |-> "throws", text |-> "TypeError"]
    ELSE [kind |-> "prefix", text |-> account.mainMnemonic]

\* The test of line 55 without its last operand.
ConfigIncomplete_NoReceiver(account) ==
    \/ ~Truthy(account.mainMnemonic)
    \/ ~Truthy(account.sponsorMnemonic)

\* !mainMnemonic || !sponsorMnemonic || !receiverAddress
ConfigIncomplete(account) ==
    \/ ~Truthy(account.mainMnemonic)
    \/ ~Truthy(account.sponsorMnemonic)
    \/ ~Truthy(account.receiverAddress)

\* The test of line 114 on the presence of a response alone.
IsRateLimited_AnyResponse(err) == err.response

\* e.response && e.response.status === 429
IsRateLimited(err) == err.response /\ err.status = RateLimitStatus

\* e.response?.data?.extras?.result_codes || e.message
ErrorMessage(err) ==
    IF err.response /\ err.result_codes THEN "result_codes" ELSE err.message

\* !botToken && !chatId: disabled only when both credentials are unset.
TelegramDisabled_BothUnset(environment) ==
    ~Truthy(environment.botToken) /\ ~Truthy(environment.chatId)

\* !botToken || !chatId
TelegramDisabled(environment) ==
    ~Truthy(environment.botToken) \/ ~Truthy(environment.chatId)

\* Lines 84-92 without the payment operation.
BuildInnerTransaction_ClaimOnly(account, cb, receiverAddress) ==
    [type |-> "transaction",
     source |-> account.id,
     sequence |-> account.sequence + 1,
     fee |-> InnerFee,
     networkPassphrase |-> NetworkPassphrase,
     operations |-> << [op |-> "claimClaimableBalance", balanceId |-> cb.id] >>,
     timeout |-> TimeoutSeconds,
     signatures |-> <<>>]

\* new TransactionBuilder(mainAccount, {fee: '0', networkPassphrase})
\*   .addOperation(claimClaimableBalance).addOperation(payment).setTimeout(60).build()
BuildInnerTransaction(account, cb, receiverAddress) ==
    [type |-> "transaction",
     source |-> account.id,
     sequence |-> account.sequence + 1,
     fee |-> InnerFee,
     networkPassphrase |-> NetworkPassphrase,
     operations |->
        << [op |-> "claimClaimableBalance", balanceId |-> cb.id],
           [op |-> "payment", destination |-> receiverAddress,
            asset |-> "native", amount |-> cb.amount] >>,
     timeout |-> TimeoutSeconds,
     signatures |-> <<>>]

\* The least base fee per operation the ledger library accepts (its BASE_FEE).
MinimumBaseFee == 100

\* new BigNumber(s) for the decimal string of an integer, signed or not.
BigNumber(s) ==
    CASE s # <<>> /\ Head(s) = MinusSign /\ Len(s) > 1
              /\ (\A i \in 2..Len(s) : s[i] \in 0..9) ->
            Num(0 - ParseDigits(Tail(s), 0))
      [] s # <<>> /\ (\A i \in 1..Len(s) : s[i] \in 0..9) ->
            Num(ParseDigits(s, 0))

\* TransactionBuilder.buildFeeBumpTransaction(feeSource, baseFee, innerTx,
\* passphrase), the call of lines 97-102.  The second argument is a base fee
\* PER OPERATION: the library refuses one below the inner transaction's fee
\* rate (0 here, the inner fee being InnerFee) or below MinimumBaseFee, and
\* the envelope declares baseFee * (operations of the inner transaction + 1).
BuildFeeBumpTransaction(feeSource, baseFee, innerTx) ==
    LET base == BigNumber(baseFee)
        innerOps == Len(innerTx.operations)
    IN  IF base.value < MinimumBaseFee
        THEN [ok |-> FALSE,
              error |-> [response |-> FALSE, status |-> 0, result_codes |-> FALSE,
                         message |-> "Invalid baseFee"]]
        ELSE [ok |-> TRUE,
              tx |-> [type |-> "feeBump",
                      feeSource |-> feeSource,
                      fee |-> JsToString(Times(base, innerOps + 1)),
                      innerTransaction |-> innerTx,
                      networkPassphrase |-> NetworkPassphrase,
                      signatures |-> <<>>]]

\* tx.sign(keypair): appends the keypair's signature.
Sign(tx, keypair) ==
    [tx EXCEPT !.signatures = Append(@, keypair.publicKey)]

\* The success text with the amount of the first record of the answer
\* instead of the amount of the record just confirmed.
SuccessMessage_FirstAmount(account, cb, res) ==
    [name |-> account.name, amount |-> PendingBalance(1).amount, hash |-> res.hash]

\* The text handed to sendTelegramMessage after a success.
SuccessMessage(account, cb, res) ==
    [name |-> account.name, amount |-> cb.amount, hash |-> res.hash]

(***************************************************************************)
(* State.                                                                  *)
(***************************************************************************)
VARIABLES
    fileState,          \* what reading and parsing accounts.json gives
    accounts,           \* the parsed account list (runAllBotsContinuously)
    env,                \* process.env: botToken, chatId
    pc,                 \* position of the single thread of control
    cycle,              \* number of the current sweep, saturating at MaxCycles
    idx,                \* for (const account of accounts): position in the list
    accountIdentifier,  \* processAccount locals ...
    mainWallet,
    sponsorWallet,
    mainKeypair,
    sponsorKeypair,
    claimables,         \* claimables.records
    ri,                 \* for (const cb of claimables.records): position
    mainAccount,
    innerTransaction,
    baseFee,
    feeBumpTransaction,
    result,
    e,                  \* the error caught at line 113 or escaping the call
    ret,                \* how the current call of processAccount returned
    lastLog,            \* the last console line: category, account, detail
    calls,              \* calls made by the current call of processAccount
    lastQuery,          \* the claimable-balance query the ledger received
    ledgerRx,           \* the envelope the ledger received for this record
    feeResp,            \* the base fee the ledger answered for this record
    posted,             \* the message the messaging API received for this record
    prevFailure,        \* how the previous account of this cycle failed, if it did
    started,            \* positions processAccount was called for in this cycle
    outstanding,        \* network calls sent and not yet answered
    failedBalance       \* the balance whose submission the previous call saw rejected

config == <<fileState, accounts, env>>
perRecord ==
    <<mainAccount, innerTransaction, baseFee, feeBumpTransaction, result,
      ledgerRx, feeResp, posted>>
wallets == <<mainWallet, sponsorWallet>>
perCall ==
    <<accountIdentifier, wallets, mainKeypair, sponsorKeypair, claimables, ri,
      e, ret,
      calls, lastQuery>>
history == <<started, outstanding, failedBalance>>
vars ==
    <<config, pc, cycle, idx, perCall, perRecord, lastLog, prevFailure, history>>

NoBalance == "none"
Sent(call) == outstanding' = outstanding \cup {call}
Answered(call) == outstanding' = outstanding \ {call}

account == accounts[idx]
cb == claimables[ri]

Log(cat, who, detail) == [cat |-> cat, who |-> who, detail |-> detail]
Count(what) == [calls EXCEPT ![what] = @ + 1]

FreshRecord ==
    /\ mainAccount' = NoAccount
    /\ innerTransaction' = NoTx
    /\ baseFee' = NoFee
    /\ feeBumpTransaction' = NoTx
    /\ result' = NoResult
    /\ ledgerRx' = NoTx
    /\ feeResp' = NoFee
    /\ posted' = NoMessage

FreshCall ==
    /\ accountIdentifier' = NoIdentifier
    /\ mainWallet' = NoKeypair
    /\ sponsorWallet' = NoKeypair
    /\ mainKeypair' = NoKeypair
    /\ sponsorKeypair' = NoKeypair
    /\ claimables' = <<>>
    /\ ri' = 0
    /\ e' = NoError
    /\ ret' = "none"
    /\ calls' = NoCalls
    /\ lastQuery' = NoQuery
    /\ FreshRecord

Init ==
    /\ fileState \in FileStates
    /\ accounts \in IF fileState = "parsed"
                    THEN SeqsUpTo(AccountConfigs, MaxAccounts)
                    ELSE {<<>>}
    /\ env \in EnvValues
    /\ pc = "start"
    /\ cycle = 0
    /\ idx = 0
    /\ accountIdentifier = NoIdentifier
    /\ mainWallet = NoKeypair
    /\ sponsorWallet = NoKeypair
    /\ mainKeypair = NoKeypair
    /\ sponsorKeypair = NoKeypair
    /\ claimables = <<>>
    /\ ri = 0
    /\ mainAccount = NoAccount
    /\ innerTransaction = NoTx
    /\ baseFee = NoFee
    /\ feeBumpTransaction = NoTx
    /\ result = NoResult
    /\ e = NoError
    /\ ret = "none"
    /\ lastLog = NoLog
    /\ calls = NoCalls
    /\ lastQuery = NoQuery
    /\ ledgerRx = NoTx
    /\ feeResp = NoFee
    /\ posted = NoMessage
    /\ prevFailure = "none"
    /\ started = <<>>
    /\ outstanding = {}
    /\ failedBalance = NoBalance

(***************************************************************************)
(* runAllBotsContinuously.                                                 *)
(***************************************************************************)
\* Lines 127-143: read and parse accounts.json; stop on a missing, malformed
\* or empty list, else construct the Horizon client and enter the loop.  A
\* value that is not a list passes the test of line 133: it is truthy and
\* its length is undefined, not 0.
ReadConfig ==
    /\ pc = "start"
    /\ IF fileState \in {"missing", "malformed"}
       THEN /\ lastLog' = Log("config_unreadable", NoIdentifier, fileState)
            /\ pc' = "stopped"
       ELSE IF fileState = "parsed" /\ Len(accounts) = 0
       THEN /\ lastLog' = Log("config_empty", NoIdentifier, "none")
            /\ pc' = "stopped"
       ELSE /\ lastLog' = Log("config_loaded", NoIdentifier, "none")
            /\ pc' = "cycle_start"
    /\ UNCHANGED <<config, cycle, idx, perCall, perRecord, prevFailure>>
    /\ UNCHANGED history

\* Lines 146-148: a new pass of while (true) starts the for loop afresh.
StartCycle ==
    /\ pc = "cycle_start"
    /\ cycle' = IF cycle < MaxCycles THEN cycle + 1 ELSE cycle
    /\ idx' = 1
    /\ prevFailure' = "none"
    /\ lastLog' = Log("cycle_start", NoIdentifier, "none")
    /\ pc' = "for_accounts"
    /\ UNCHANGED <<config, perCall, perRecord>>
    /\ started' = <<>>
    /\ UNCHANGED <<outstanding, failedBalance>>

\* Line 149: processAccount(account, server) is entered with a fresh frame.
CallProcessAccount ==
    /\ pc = "for_accounts"
    /\ fileState = "parsed"
    /\ idx <= Len(accounts)
    /\ FreshCall
    /\ pc' = "pa_identify"
    /\ UNCHANGED <<config, cycle, idx, lastLog, prevFailure>>
    /\ started' = Append(started, idx)
    /\ UNCHANGED <<outstanding, failedBalance>>

\* The failures of one account that must leave the next account untouched:
\* an invalid mnemonic, a submission the ledger did not accept.
FailureKind(how, err) ==
    IF how # "caught" THEN "none"
    ELSE IF err.at \in {"deriveMain", "deriveSponsor"} THEN "mnemonic"
    ELSE IF err.at = "submitTransaction" THEN "submission"
    ELSE "other"

\* Lines 149-150: the awaited call has returned; the frame is gone and the
\* for loop moves to the next account.
ReturnToLoop ==
    /\ pc = "pa_return"
    /\ prevFailure' = FailureKind(ret, e)
    /\ FreshCall
    /\ idx' = idx + 1
    /\ pc' = "for_accounts"
    /\ UNCHANGED <<config, cycle, lastLog>>
    /\ failedBalance' = IF ret = "caught" /\ e.at = "submitTransaction"
                        THEN cb.id ELSE NoBalance
    /\ UNCHANGED <<started, outstanding>>

\* Line 151: the list is exhausted; the while loop goes round at once.
EndCycle ==
    /\ pc = "for_accounts"
    /\ fileState = "parsed"
    /\ idx > Len(accounts)
    /\ lastLog' = Log("cycle_done", NoIdentifier, "none")
    /\ pc' = "cycle_start"
    /\ UNCHANGED <<config, cycle, idx, perCall, perRecord, prevFailure>>
    /\ UNCHANGED history

\* Line 148 on a value that is not iterable: for..of throws a TypeError
\* before any call of processAccount.
ForOfThrows ==
    /\ pc = "for_accounts"
    /\ fileState = "notalist"
    /\ e' = Thrown([NoError EXCEPT !.message = "accounts is not iterable"], "forOf")
    /\ pc' = "loop_throw"
    /\ UNCHANGED <<config, cycle, idx, accountIdentifier, wallets, mainKeypair,
                   sponsorKeypair, claimables, ri, ret, calls, lastQuery,
                   perRecord, lastLog, prevFailure>>
    /\ UNCHANGED history

\* Lines 157-159: an error that left processAccount or the for loop rejects
\* the promise of runAllBotsContinuously; the handler logs it and nothing
\* runs any more.
MainCatch ==
    /\ pc \in {"pa_throw", "loop_throw"}
    /\ lastLog' = Log("fatal", NoIdentifier, e.message)
    /\ pc' = "fatal"
    /\ UNCHANGED <<config, cycle, idx, perCall, perRecord, prevFailure>>
    /\ UNCHANGED history

(***************************************************************************)
(* processAccount.  A call to the ledger is two steps: the request goes    *)
(* out (the thread waits at the await), then the answer comes back.        *)
(***************************************************************************)
\* Lines 50-51: the display name, computed before the try block.  When it
\* throws, the error leaves processAccount.
PA_Identify ==
    /\ pc = "pa_identify"
    /\ LET id == AccountIdentifier(account)
       IN  IF id.kind = "throws"
           THEN /\ e' = Thrown([NoError EXCEPT !.message = id.text], "identify")
                /\ pc' = "pa_throw"
                /\ UNCHANGED <<accountIdentifier, lastLog>>
           ELSE /\ accountIdentifier' = id
                /\ lastLog' = Log("processing", id, "none")
                /\ pc' = "pa_validate"
                /\ UNCHANGED e
    /\ UNCHANGED <<config, cycle, idx, wallets, mainKeypair, sponsorKeypair,
                   claimables, ri, ret, calls, lastQuery, perRecord,
                   prevFailure>>
    /\ UNCHANGED history

\* Lines 53-58: an entry without one of the three required fields is logged
\* and skipped.
PA_Validate ==
    /\ pc = "pa_validate"
    /\ IF ConfigIncomplete(account)
       THEN /\ lastLog' = Log("incomplete", accountIdentifier, "none")
            /\ ret' = "incomplete"
            /\ pc' = "pa_return"
       ELSE /\ pc' = "pa_derive"
            /\ UNCHANGED <<lastLog, ret>>
    /\ UNCHANGED <<config, cycle, idx, accountIdentifier, wallets, mainKeypair,
                   sponsorKeypair, claimables, ri, e, calls, lastQuery,
                   perRecord, prevFailure>>
    /\ UNCHANGED history

\* Line 63, call: getPiWalletAddressFromSeed(mainMnemonic) runs up to its
\* first await (line 37), or throws at line 36; the rejection reaches the
\* catch block of processAccount.
PA_DeriveMain ==
    /\ pc = "pa_derive"
    /\ IF ~GetPiWalletAddressFromSeed(account.mainMnemonic).ok
       THEN /\ e' = Thrown(ErrInvalidMnemonic, "deriveMain")
            /\ pc' = "pa_catch"
       ELSE /\ pc' = "pa_main_seed"
            /\ UNCHANGED e
    /\ UNCHANGED wallets
    /\ UNCHANGED <<config, cycle, idx, accountIdentifier, mainKeypair,
                   sponsorKeypair, claimables, ri, ret, calls, lastQuery,
                   perRecord, lastLog, prevFailure>>
    /\ UNCHANGED history

\* Lines 37-41: the seed of the main phrase is there; the key is derived and
\* the function returns, its caller still at the await of line 63.
PA_MainSeedReturn ==
    /\ pc = "pa_main_seed"
    /\ pc' = "pa_main_wallet"
    /\ UNCHANGED <<e, wallets>>
    /\ UNCHANGED <<config, cycle, idx, accountIdentifier, mainKeypair,
                   sponsorKeypair, claimables, ri, ret, calls, lastQuery,
                   perRecord, lastLog, prevFailure>>
    /\ UNCHANGED history

\* Line 63: the await resolves with the main wallet.
PA_MainWalletReturn ==
    /\ pc = "pa_main_wallet"
    /\ mainWallet' = GetPiWalletAddressFromSeed(account.mainMnemonic).wallet
    /\ pc' = "pa_derive_sponsor"
    /\ UNCHANGED <<e, sponsorWallet>>
    /\ UNCHANGED <<config, cycle, idx, accountIdentifier, mainKeypair,
                   sponsorKeypair, claimables, ri, ret, calls, lastQuery,
                   perRecord, lastLog, prevFailure>>
    /\ UNCHANGED history

\* Line 64, call: the same for the sponsor phrase, after the main wallet.
PA_DeriveSponsor ==
    /\ pc = "pa_derive_sponsor"
    /\ IF ~GetPiWalletAddressFromSeed(account.sponsorMnemonic).ok
       THEN /\ e' = Thrown(ErrInvalidMnemonic, "deriveSponsor")
            /\ pc' = "pa_catch"
       ELSE /\ pc' = "pa_sponsor_seed"
            /\ UNCHANGED e
    /\ UNCHANGED wallets
    /\ UNCHANGED <<config, cycle, idx, accountIdentifier, mainKeypair,
                   sponsorKeypair, claimables, ri, ret, calls, lastQuery,
                   perRecord, lastLog, prevFailure>>
    /\ UNCHANGED history

\* Lines 37-41 for the sponsor phrase.
PA_SponsorSeedReturn ==
    /\ pc = "pa_sponsor_seed"
    /\ pc' = "pa_sponsor_wallet"
    /\ UNCHANGED <<e, wallets>>
    /\ UNCHANGED <<config, cycle, idx, accountIdentifier, mainKeypair,
                   sponsorKeypair, claimables, ri, ret, calls, lastQuery,
                   perRecord, lastLog, prevFailure>>
    /\ UNCHANGED history

\* Line 64: the await resolves with the sponsor wallet.
PA_SponsorWalletReturn ==
    /\ pc = "pa_sponsor_wallet"
    /\ sponsorWallet' = GetPiWalletAddressFromSeed(account.sponsorMnemonic).wallet
    /\ pc' = "pa_keypairs"
    /\ UNCHANGED <<e, mainWallet>>
    /\ UNCHANGED <<config, cycle, idx, accountIdentifier, mainKeypair,
                   sponsorKeypair, claimables, ri, ret, calls, lastQuery,
                   perRecord, lastLog, prevFailure>>
    /\ UNCHANGED history

\* Lines 65-66: the signing keypairs are rebuilt from the wallets' secrets.
PA_Keypairs ==
    /\ pc = "pa_keypairs"
    /\ mainKeypair' = KeypairFromSecret(mainWallet.secretKey)
    /\ sponsorKeypair' = KeypairFromSecret(sponsorWallet.secretKey)
    /\ pc' = "pa_query"
    /\ UNCHANGED <<config, cycle, idx, accountIdentifier, wallets, claimables,
                   ri, e, ret, calls, lastQuery, perRecord, lastLog,
                   prevFailure>>
    /\ UNCHANGED history

\* Lines 68-72: the query for the balances claimable by the main key goes out.
PA_Query ==
    /\ pc = "pa_query"
    /\ calls' = Count("query")
    /\ lastQuery' = [claimant |-> mainKeypair.publicKey, limit |-> QueryLimit,
                     answer |-> "pending"]
    /\ pc' = "pa_query_wait"
    /\ UNCHANGED <<config, cycle, idx, accountIdentifier, wallets, mainKeypair,
                   sponsorKeypair, claimables, ri, e, ret, perRecord, lastLog,
                   prevFailure>>
    /\ Sent("query")
    /\ UNCHANGED <<started, failedBalance>>

\* Lines 72-77 with an empty answer treated as a failure.
PA_QueryReturn_EmptyThrows ==
    /\ pc = "pa_query_wait"
    /\ \/ \E err \in LedgerErrors :
            /\ e' = Thrown(err, "query")
            /\ lastQuery' = [lastQuery EXCEPT !.answer = "error"]
            /\ pc' = "pa_catch"
            /\ UNCHANGED <<claimables, ri>>
       \/ \E records \in RecordLists :
            /\ claimables' = records
            /\ lastQuery' = [lastQuery EXCEPT !.answer = "records"]
            /\ IF Len(records) = 0
               THEN /\ e' = Thrown([NoError EXCEPT !.message = "no records"], "query")
                    /\ pc' = "pa_catch"
               ELSE /\ pc' = "pa_for"
                    /\ UNCHANGED e
            /\ ri' = 0
    /\ UNCHANGED <<config, cycle, idx, accountIdentifier, wallets, mainKeypair,
                   sponsorKeypair, calls, ret, lastLog, perRecord, prevFailure>>
    /\ Answered("query")
    /\ UNCHANGED <<started, failedBalance>>

\* Lines 72-77: the answer of the query; an empty list is logged and the call
\* returns.
PA_QueryReturn ==
    /\ pc = "pa_query_wait"
    /\ \/ \E err \in LedgerErrors :
            /\ e' = Thrown(err, "query")
            /\ lastQuery' = [lastQuery EXCEPT !.answer = "error"]
            /\ pc' = "pa_catch"
            /\ UNCHANGED <<claimables, ri, ret, lastLog>>
       \/ \E records \in RecordLists :
            /\ claimables' = records
            /\ lastQuery' = [lastQuery EXCEPT !.answer = "records"]
            /\ IF Len(records) = 0
               THEN /\ lastLog' = Log("no_claimable", accountIdentifier, "none")
                    /\ ret' = "empty"
                    /\ pc' = "pa_return"
               ELSE /\ pc' = "pa_for"
                    /\ UNCHANGED <<ret, lastLog>>
            /\ ri' = 0
            /\ UNCHANGED e
    /\ UNCHANGED <<config, cycle, idx, accountIdentifier, wallets, mainKeypair,
                   sponsorKeypair, calls, perRecord, prevFailure>>
    /\ Answered("query")
    /\ UNCHANGED <<started, failedBalance>>

\* Lines 79-80 with a memory of rejections: a record whose submission the
\* previous call saw rejected is passed over.
PA_ForRecord_SkipsFailed ==
    /\ pc = "pa_for"
    /\ IF ri + 1 <= Len(claimables)
       THEN /\ ri' = ri + 1
            /\ IF claimables[ri + 1].id = failedBalance
               THEN /\ pc' = "pa_for"
                    /\ UNCHANGED lastLog
               ELSE /\ pc' = "pa_load"
                    /\ lastLog' = Log("found", accountIdentifier,
                                      claimables[ri + 1].amount)
            /\ UNCHANGED ret
       ELSE /\ ret' = "done"
            /\ pc' = "pa_return"
            /\ UNCHANGED <<ri, lastLog>>
    /\ FreshRecord
    /\ UNCHANGED <<config, cycle, idx, accountIdentifier, wallets, mainKeypair,
                   sponsorKeypair, claimables, e, calls, lastQuery,
                   prevFailure>>
    /\ UNCHANGED history

\* Lines 79-82 with the account state loaded for the first record only and
\* kept for the records after it.
PA_ForRecord_AccountLoadedOnce ==
    /\ pc = "pa_for"
    /\ IF ri + 1 <= Len(claimables)
       THEN /\ ri' = ri + 1
            /\ lastLog' = Log("found", accountIdentifier, claimables[ri + 1].amount)
            /\ pc' = IF ri = 0 THEN "pa_load" ELSE "pa_build"
            /\ UNCHANGED <<ret, mainAccount>>
       ELSE /\ ret' = "done"
            /\ pc' = "pa_return"
            /\ mainAccount' = NoAccount
            /\ UNCHANGED <<ri, lastLog>>
    /\ innerTransaction' = NoTx
    /\ baseFee' = NoFee
    /\ feeBumpTransaction' = NoTx
    /\ result' = NoResult
    /\ ledgerRx' = NoTx
    /\ feeResp' = NoFee
    /\ posted' = NoMessage
    /\ UNCHANGED <<config, cycle, idx, accountIdentifier, wallets, mainKeypair,
                   sponsorKeypair, claimables, e, calls, lastQuery,
                   prevFailure>>
    /\ UNCHANGED history

\* Lines 79-80 and 112: the head of for (const cb of claimables.records): the
\* iterator advances; each pass has its own block-scoped constants.
PA_ForRecord ==
    /\ pc = "pa_for"
    /\ IF ri + 1 <= Len(claimables)
       THEN /\ ri' = ri + 1
            /\ lastLog' = Log("found", accountIdentifier, claimables[ri + 1].amount)
            /\ pc' = "pa_load"
            /\ UNCHANGED ret
       ELSE /\ ret' = "done"
            /\ pc' = "pa_return"
            /\ UNCHANGED <<ri, lastLog>>
    /\ FreshRecord
    /\ UNCHANGED <<config, cycle, idx, accountIdentifier, wallets, mainKeypair,
                   sponsorKeypair, claimables, e, calls, lastQuery,
                   prevFailure>>
    /\ UNCHANGED history

\* Line 82: server.loadAccount(mainKeypair.publicKey()) goes out.
PA_LoadAccount ==
    /\ pc = "pa_load"
    /\ calls' = Count("load")
    /\ pc' = "pa_load_wait"
    /\ UNCHANGED <<config, cycle, idx, accountIdentifier, wallets, mainKeypair,
                   sponsorKeypair, claimables, ri, e, ret, lastQuery, lastLog,
                   perRecord, prevFailure>>
    /\ Sent("loadAccount")
    /\ UNCHANGED <<started, failedBalance>>

\* Line 82: the account state comes back, or the call rejects.
PA_LoadAccountReturn ==
    /\ pc = "pa_load_wait"
    /\ \/ \E err \in LedgerErrors :
            /\ e' = Thrown(err, "loadAccount")
            /\ pc' = "pa_catch"
            /\ UNCHANGED mainAccount
       \/ \E s \in SeqNums :
            /\ mainAccount' = [id |-> mainKeypair.publicKey, sequence |-> s]
            /\ pc' = "pa_build"
            /\ UNCHANGED e
    /\ UNCHANGED <<config, cycle, idx, accountIdentifier, wallets, mainKeypair,
                   sponsorKeypair, claimables, ri, ret, calls, lastQuery,
                   lastLog, innerTransaction, baseFee, feeBumpTransaction,
                   result, ledgerRx, feeResp, posted, prevFailure>>
    /\ Answered("loadAccount")
    /\ UNCHANGED <<started, failedBalance>>

\* Lines 84-92: the inner transaction is built from this record.
PA_BuildInner ==
    /\ pc = "pa_build"
    /\ innerTransaction' =
          BuildInnerTransaction(mainAccount, cb, account.receiverAddress)
    /\ pc' = "pa_sign"
    /\ UNCHANGED <<config, cycle, idx, perCall, lastLog, mainAccount, baseFee,
                   feeBumpTransaction, result, ledgerRx, feeResp, posted,
                   prevFailure>>
    /\ UNCHANGED history

\* Line 94 left out: the inner transaction goes on unsigned.
PA_SignInner_Skipped ==
    /\ pc = "pa_sign"
    /\ pc' = "pa_fee"
    /\ UNCHANGED <<config, cycle, idx, perCall, lastLog, perRecord,
                   prevFailure>>
    /\ UNCHANGED history

\* Line 94: innerTransaction.sign(mainKeypair).
PA_SignInner ==
    /\ pc = "pa_sign"
    /\ innerTransaction' = Sign(innerTransaction, mainKeypair)
    /\ calls' = Count("sign")
    /\ pc' = "pa_fee"
    /\ UNCHANGED <<config, cycle, idx, accountIdentifier, wallets, mainKeypair,
                   sponsorKeypair, claimables, ri, e, ret, lastQuery, lastLog,
                   mainAccount, baseFee, feeBumpTransaction, result, ledgerRx,
                   feeResp, posted, prevFailure>>
    /\ UNCHANGED history

\* Line 96: server.fetchBaseFee() goes out.
PA_FetchBaseFee ==
    /\ pc = "pa_fee"
    /\ calls' = Count("fee")
    /\ pc' = "pa_fee_wait"
    /\ UNCHANGED <<config, cycle, idx, accountIdentifier, wallets, mainKeypair,
                   sponsorKeypair, claimables, ri, e, ret, lastQuery, lastLog,
                   perRecord, prevFailure>>
    /\ Sent("fetchBaseFee")
    /\ UNCHANGED <<started, failedBalance>>

\* Line 96: the base fee comes back, or the call rejects.
PA_FetchBaseFeeReturn ==
    /\ pc = "pa_fee_wait"
    /\ \/ \E err \in LedgerErrors :
            /\ e' = Thrown(err, "fetchBaseFee")
            /\ pc' = "pa_catch"
            /\ UNCHANGED <<baseFee, feeResp>>
       \/ \E b \in BaseFees :
            /\ baseFee' = b
            /\ feeResp' = b
            /\ pc' = "pa_bump"
            /\ UNCHANGED e
    /\ UNCHANGED <<config, cycle, idx, accountIdentifier, wallets, mainKeypair,
                   sponsorKeypair, claimables, ri, ret, calls, lastQuery,
                   lastLog, mainAccount, innerTransaction, feeBumpTransaction,
                   result, ledgerRx, posted, prevFailure>>
    /\ Answered("fetchBaseFee")
    /\ UNCHANGED <<started, failedBalance>>

\* Lines 97-102: the fee-bump around the signed inner transaction.
PA_BuildFeeBump ==
    /\ pc = "pa_bump"
    /\ LET built == BuildFeeBumpTransaction(sponsorKeypair.publicKey,
                                            FeeBumpFee(baseFee), innerTransaction)
       IN  IF built.ok
           THEN /\ feeBumpTransaction' = built.tx
                /\ pc' = "pa_signbump"
                /\ UNCHANGED e
           ELSE /\ e' = Thrown(built.error, "buildFeeBumpTransaction")
                /\ pc' = "pa_catch"
                /\ UNCHANGED feeBumpTransaction
    /\ UNCHANGED <<config, cycle, idx, accountIdentifier, wallets, mainKeypair,
                   sponsorKeypair, claimables, ri, ret, calls, lastQuery,
                   lastLog, mainAccount, innerTransaction, baseFee, result,
                   ledgerRx, feeResp, posted, prevFailure>>
    /\ UNCHANGED history

\* Line 104: feeBumpTransaction.sign(sponsorKeypair).
PA_SignFeeBump ==
    /\ pc = "pa_signbump"
    /\ feeBumpTransaction' = Sign(feeBumpTransaction, sponsorKeypair)
    /\ calls' = Count("sign")
    /\ pc' = "pa_submit"
    /\ UNCHANGED <<config, cycle, idx, accountIdentifier, wallets, mainKeypair,
                   sponsorKeypair, claimables, ri, e, ret, lastQuery, lastLog,
                   mainAccount, innerTransaction, baseFee, result, ledgerRx,
                   feeResp, posted, prevFailure>>
    /\ UNCHANGED history

\* Lines 106-107: the envelope goes out to the ledger.
PA_Submit ==
    /\ pc = "pa_submit"
    /\ lastLog' = Log("sending", accountIdentifier, "none")
    /\ calls' = Count("submit")
    /\ ledgerRx' = feeBumpTransaction
    /\ pc' = "pa_submit_wait"
    /\ UNCHANGED <<config, cycle, idx, accountIdentifier, wallets, mainKeypair,
                   sponsorKeypair, claimables, ri, e, ret, lastQuery,
                   mainAccount, innerTransaction, baseFee, feeBumpTransaction,
                   result, feeResp, posted, prevFailure>>
    /\ Sent("submitTransaction")
    /\ UNCHANGED <<started, failedBalance>>

\* Lines 107-108 with a retry: a rejected submission is sent again.
PA_SubmitReturn_Retries ==
    /\ pc = "pa_submit_wait"
    /\ \/ /\ pc' = "pa_submit"
          /\ UNCHANGED <<result, lastLog, calls>>
       \/ \E h \in Hashes :
            /\ result' = [hash |-> h]
            /\ calls' = Count("accepted")
            /\ lastLog' = Log("success", accountIdentifier, h)
            /\ pc' = "pa_notify"
    /\ UNCHANGED <<config, cycle, idx, accountIdentifier, wallets, mainKeypair,
                   sponsorKeypair, claimables, ri, e, ret, lastQuery,
                   mainAccount, innerTransaction, baseFee, feeBumpTransaction,
                   ledgerRx, feeResp, posted, prevFailure>>
    /\ Answered("submitTransaction")
    /\ UNCHANGED <<started, failedBalance>>

\* Lines 107-108: the ledger accepts the envelope and answers with its hash,
\* or the call rejects.
PA_SubmitReturn ==
    /\ pc = "pa_submit_wait"
    /\ \/ \E err \in LedgerErrors :
            /\ e' = Thrown(err, "submitTransaction")
            /\ pc' = "pa_catch"
            /\ UNCHANGED <<result, lastLog, calls>>
       \/ \E h \in Hashes :
            /\ result' = [hash |-> h]
            /\ calls' = Count("accepted")
            /\ lastLog' = Log("success", accountIdentifier, h)
            /\ pc' = "pa_notify"
            /\ UNCHANGED e
    /\ UNCHANGED <<config, cycle, idx, accountIdentifier, wallets, mainKeypair,
                   sponsorKeypair, claimables, ri, ret, lastQuery, mainAccount,
                   innerTransaction, baseFee, feeBumpTransaction, ledgerRx,
                   feeResp, posted, prevFailure>>
    /\ Answered("submitTransaction")
    /\ UNCHANGED <<started, failedBalance>>

(***************************************************************************)
(* sendTelegramMessage, called at lines 109-111.                           *)
(***************************************************************************)
\* Lines 13-24: nothing when a credential is unset; else one POST goes out.
SendTelegramMessage(message) ==
    IF TelegramDisabled(env)
    THEN /\ calls' = Count("notify")
         /\ pc' = "pa_for"
         /\ UNCHANGED <<posted, outstanding>>
    ELSE /\ calls' = [calls EXCEPT !.notify = @ + 1, !.post = @ + 1]
         /\ posted' = message
         /\ Sent("post")
         /\ pc' = "pa_post_wait"

\* Lines 109-111 without the await: the POST goes out and the loop moves on
\* while it is still unanswered.
PA_Notify_NotAwaited ==
    /\ pc = "pa_notify"
    /\ IF TelegramDisabled(env)
       THEN /\ calls' = Count("notify")
            /\ UNCHANGED <<posted, outstanding>>
       ELSE /\ calls' = [calls EXCEPT !.notify = @ + 1, !.post = @ + 1]
            /\ posted' = SuccessMessage(account, cb, result)
            /\ Sent("post")
    /\ pc' = "pa_for"
    /\ UNCHANGED <<config, cycle, idx, accountIdentifier, wallets, mainKeypair,
                   sponsorKeypair, claimables, ri, e, ret, lastQuery, lastLog,
                   mainAccount, innerTransaction, baseFee, feeBumpTransaction,
                   result, ledgerRx, feeResp, prevFailure>>
    /\ UNCHANGED <<started, failedBalance>>

\* Lines 109-111: the success notification of this record.
PA_Notify ==
    /\ pc = "pa_notify"
    /\ SendTelegramMessage(SuccessMessage(account, cb, result))
    /\ UNCHANGED <<config, cycle, idx, accountIdentifier, wallets, mainKeypair,
                   sponsorKeypair, claimables, ri, e, ret, lastQuery, lastLog,
                   mainAccount, innerTransaction, baseFee, feeBumpTransaction,
                   result, ledgerRx, feeResp, prevFailure>>
    /\ UNCHANGED <<started, failedBalance>>

\* Lines 20-28 without the try/catch: a failed POST rejects the awaited call
\* and lands in the catch block of processAccount.
PA_NotifyReturn_Propagates ==
    /\ pc = "pa_post_wait"
    /\ \/ /\ pc' = "pa_for"
          /\ UNCHANGED e
       \/ /\ e' = Thrown([NoError EXCEPT !.message = "Network Error"],
                         "sendTelegramMessage")
          /\ pc' = "pa_catch"
    /\ UNCHANGED <<config, cycle, idx, accountIdentifier, wallets, mainKeypair,
                   sponsorKeypair, claimables, ri, ret, calls, lastQuery,
                   perRecord, lastLog, prevFailure>>
    /\ Answered("post")
    /\ UNCHANGED <<started, failedBalance>>

\* Lines 20-28: the POST is answered, or fails; the failure is caught and
\* logged inside sendTelegramMessage, which returns either way.
PA_NotifyReturn ==
    /\ pc = "pa_post_wait"
    /\ \/ UNCHANGED lastLog
       \/ lastLog' = Log("telegram_failed", NoIdentifier, "Network Error")
    /\ pc' = "pa_for"
    /\ UNCHANGED <<config, cycle, idx, perCall, perRecord, prevFailure>>
    /\ Answered("post")
    /\ UNCHANGED <<started, failedBalance>>

\* Lines 113-121 with the error thrown on instead of absorbed.
PA_Catch_Rethrows ==
    /\ pc = "pa_catch"
    /\ pc' = "pa_throw"
    /\ UNCHANGED <<config, cycle, idx, perCall, perRecord, lastLog,
                   prevFailure>>
    /\ UNCHANGED history

\* Lines 113-121: the one catch block of processAccount, around the whole
\* loop: it classifies the error, logs it, and the function returns.
PA_Catch ==
    /\ pc = "pa_catch"
    /\ lastLog' = IF IsRateLimited(e)
                  THEN Log("rate_limited", accountIdentifier, "none")
                  ELSE Log("error", accountIdentifier, ErrorMessage(e))
    /\ ret' = "caught"
    /\ pc' = "pa_return"
    /\ UNCHANGED <<config, cycle, idx, accountIdentifier, wallets, mainKeypair,
                   sponsorKeypair, claimables, ri, e, calls, lastQuery,
                   perRecord, prevFailure>>
    /\ UNCHANGED history

Next ==
    \/ ReadConfig
    \/ StartCycle
    \/ CallProcessAccount
    \/ ReturnToLoop
    \/ EndCycle
    \/ ForOfThrows
    \/ MainCatch
    \/ PA_Identify
    \/ PA_Validate
    \/ PA_DeriveMain
    \/ PA_MainSeedReturn
    \/ PA_MainWalletReturn
    \/ PA_DeriveSponsor
    \/ PA_SponsorSeedReturn
    \/ PA_SponsorWalletReturn
    \/ PA_Keypairs
    \/ PA_Query
    \/ PA_QueryReturn
    \/ PA_ForRecord
    \/ PA_LoadAccount
    \/ PA_LoadAccountReturn
    \/ PA_BuildInner
    \/ PA_SignInner
    \/ PA_FetchBaseFee
    \/ PA_FetchBaseFeeReturn
    \/ PA_BuildFeeBump
    \/ PA_SignFeeBump
    \/ PA_Submit
    \/ PA_SubmitReturn
    \/ PA_Notify
    \/ PA_NotifyReturn
    \/ PA_Catch

Spec == Init /\ [][Next]_vars

\* The same program with the thread always scheduled and every awaited call
\* settling sooner or later: whatever step is possible is eventually taken.
FairSpec == Init /\ [][Next]_vars /\ WF_vars(Next)

(***************************************************************************)
(* Vocabulary of the properties.                                           *)
(***************************************************************************)
\* The thread is inside a call of processAccount (or died in one): idx names
\* the account being processed.
InCall ==
    \/ pc \in {"pa_identify", "pa_validate", "pa_derive", "pa_main_seed",
               "pa_main_wallet", "pa_derive_sponsor", "pa_sponsor_seed",
               "pa_sponsor_wallet", "pa_keypairs", "pa_query",
               "pa_query_wait", "pa_for", "pa_load", "pa_load_wait",
               "pa_build", "pa_sign", "pa_fee", "pa_fee_wait", "pa_bump",
               "pa_signbump", "pa_submit", "pa_submit_wait", "pa_notify",
               "pa_post_wait", "pa_catch", "pa_return", "pa_throw"}
    \/ pc = "fatal" /\ e.at = "identify"

Missing(v) == v = Undefined \/ v = ""
RequiredMissing(a) ==
    Missing(a.mainMnemonic) \/ Missing(a.sponsorMnemonic) \/ Missing(a.receiverAddress)
AnyFieldMissing(a) == Missing(a.name) \/ RequiredMissing(a)
WellFormed(m) == m = GoodMain \/ m = GoodSponsor
ValidlyConfigured(a) ==
    WellFormed(a.mainMnemonic) /\ WellFormed(a.sponsorMnemonic)
        /\ ~Missing(a.receiverAddress)

NoLedgerCall ==
    calls.query = 0 /\ calls.load = 0 /\ calls.fee = 0 /\ calls.submit = 0
NothingSignedOrSent == calls.sign = 0 /\ calls.notify = 0 /\ calls.post = 0
RecordStepFailed ==
    e.at \in {"loadAccount", "fetchBaseFee", "submitTransaction"}

\* C1: no error raised while processAccount handles an account escapes to
\* terminate the loop of runAllBotsContinuously.
C1_NoErrorEscapes == pc # "pa_throw" /\ ~(pc = "fatal" /\ e.at = "identify")

\* C2: when a step for one balance record fails, processing goes on with the
\* records after it: a call that returns after such a failure has left no
\* record of the query's answer unprocessed.
C2_FailureContinuesToNextRecord ==
    (pc = "pa_return" /\ ret = "caught" /\ RecordStepFailed)
        => ri = Len(claimables)

\* C3 as stated: with any of the four fields missing (name included) the
\* account is logged and skipped: no throw, no ledger call, and the call
\* returns through the incomplete-configuration branch.
C3_AnyOfFourMissingSkipped ==
    (InCall /\ AnyFieldMissing(account)) =>
        /\ NoLedgerCall
        /\ pc \notin {"pa_throw", "fatal"}
        /\ (pc = "pa_return" => ret = "incomplete" /\ lastLog.cat = "incomplete")

\* C3 amended: with any of mainMnemonic, sponsorMnemonic, receiverAddress
\* missing, processAccount makes no ledger call, signs and sends nothing and
\* leaves every local untouched; it logs the incomplete configuration under
\* the account's identifier and returns normally, except that with the name
\* missing too and mainMnemonic absent it throws before logging anything.
C3_RequiredMissingSkipped ==
    (InCall /\ RequiredMissing(account)) =>
        /\ NoLedgerCall
        /\ NothingSignedOrSent
        /\ mainWallet = NoKeypair /\ sponsorWallet = NoKeypair
        /\ mainKeypair = NoKeypair /\ sponsorKeypair = NoKeypair
        /\ claimables = <<>> /\ e.at \in {"none", "identify"}
        /\ pc \in {"pa_identify", "pa_validate", "pa_return", "pa_throw", "fatal"}
        /\ (pc = "pa_return" =>
              /\ ret = "incomplete"
              /\ lastLog.cat = "incomplete"
              /\ lastLog.who.text = IF Missing(account.name)
                                    THEN account.mainMnemonic ELSE account.name)
        /\ (pc \in {"pa_throw", "fatal"} =>
              Missing(account.name) /\ account.mainMnemonic = Undefined)
        /\ (pc \in {"pa_validate", "pa_return"} =>
              ~(Missing(account.name) /\ account.mainMnemonic = Undefined))

C3_Witness ==
    /\ pc = "pa_return"
    /\ ret = "incomplete"
    /\ account.receiverAddress = Undefined
    /\ WellFormed(account.mainMnemonic)

\* One step of the program after a failure of the kind C4 is about: the
\* catch block returns, the for loop advances, the next account is entered
\* and, when validly configured, taken as far as its query.
C4_Step ==
    /\ (pc = "pa_catch" /\ e.at \in {"deriveMain", "deriveSponsor", "submitTransaction"})
          => (pc' = "pa_return" /\ ret' = "caught" /\ e' = e)
    /\ (pc = "pa_return" /\ ret = "caught"
          /\ e.at \in {"deriveMain", "deriveSponsor", "submitTransaction"})
          => (pc' = "for_accounts" /\ idx' = idx + 1 /\ cycle' = cycle
                /\ prevFailure' \in {"mnemonic", "submission"})
    /\ (prevFailure \in {"mnemonic", "submission"})
          => /\ (pc = "for_accounts" /\ idx <= Len(accounts))
                   => (pc' = "pa_identify" /\ idx' = idx /\ cycle' = cycle)
             /\ (InCall /\ ValidlyConfigured(account)) =>
                   /\ pc = "pa_identify" => pc' = "pa_validate"
                   /\ pc = "pa_validate" => pc' = "pa_derive"
                   /\ pc = "pa_derive" => pc' = "pa_main_seed"
                   /\ pc = "pa_main_seed" => pc' = "pa_main_wallet"
                   /\ pc = "pa_main_wallet" => pc' = "pa_derive_sponsor"
                   /\ pc = "pa_derive_sponsor" => pc' = "pa_sponsor_seed"
                   /\ pc = "pa_sponsor_seed" => pc' = "pa_sponsor_wallet"
                   /\ pc = "pa_sponsor_wallet" => pc' = "pa_keypairs"
                   /\ pc = "pa_keypairs" => pc' = "pa_query"
                   /\ pc = "pa_query" =>
                         /\ pc' = "pa_query_wait"
                         /\ calls'.query = 1
                         /\ lastQuery'.claimant = "GMAIN"

\* C4: after account A failed through an invalid mnemonic or a submission the
\* ledger did not accept, every step the program can take leads on, in the
\* same cycle, to the call of processAccount for the next account B and, B
\* being validly configured, to B's claimable-balance query.
C4_FailureOfOneAccountIsolated == [][C4_Step]_vars

C4_Witness ==
    /\ pc = "pa_query_wait"
    /\ idx > 1
    /\ prevFailure = "submission"
    /\ lastQuery.claimant = "GMAIN"

\* How far the processing of the current record has come, read off the data
\* each step leaves behind: 0 found, 1 main account loaded, 2 inner built,
\* 3 inner signed, 4 base fee fetched, 5 fee-bump built, 6 fee-bump signed,
\* 7 submitted, 8 confirmed or rejected.
Progress ==
    IF result # NoResult \/ e.at = "submitTransaction" THEN 8
    ELSE IF ledgerRx # NoTx THEN 7
    ELSE IF feeBumpTransaction # NoTx /\ feeBumpTransaction.signatures # <<>> THEN 6
    ELSE IF feeBumpTransaction # NoTx THEN 5
    ELSE IF baseFee # NoFee THEN 4
    ELSE IF innerTransaction # NoTx /\ innerTransaction.signatures # <<>> THEN 3
    ELSE IF innerTransaction # NoTx THEN 2
    ELSE IF mainAccount # NoAccount THEN 1
    ELSE 0

\* C5: the steps of one record happen in the order load, build, sign (main),
\* fetch fee, build fee-bump, sign (sponsor), submit, report: whatever step
\* has been taken, every step before it has been completed.  What the ledger
\* receives carries the main key's signature on the inner transaction and
\* the sponsor key's on the fee-bump, and a record is confirmed or rejected
\* only after its envelope went out.
C5_StepsInOrder ==
    /\ Progress >= 1 => mainAccount.id = "GMAIN" /\ calls.load = ri
    /\ Progress >= 2 =>
          /\ innerTransaction.type = "transaction"
          /\ innerTransaction.source = mainAccount.id
          /\ innerTransaction.sequence = mainAccount.sequence + 1
    /\ Progress >= 3 => innerTransaction.signatures = <<"GMAIN">>
    /\ Progress >= 4 => baseFee \in BaseFees /\ calls.fee = ri
    /\ Progress >= 5 =>
          /\ feeBumpTransaction.type = "feeBump"
          /\ feeBumpTransaction.feeSource = "GSPONSOR"
          /\ feeBumpTransaction.innerTransaction = innerTransaction
    /\ Progress >= 6 => feeBumpTransaction.signatures = <<"GSPONSOR">>
    /\ Progress >= 7 =>
          /\ ledgerRx = feeBumpTransaction
          /\ ledgerRx.signatures = <<"GSPONSOR">>
          /\ ledgerRx.innerTransaction.signatures = <<"GMAIN">>
          /\ calls.submit = ri
    /\ Progress >= 8 => ledgerRx # NoTx
    /\ lastLog.cat = "sending" => ledgerRx # NoTx
    /\ posted # NoMessage => result # NoResult
    /\ pc \in {"pa_notify", "pa_post_wait"} => result # NoResult
    /\ (result # NoResult /\ e # NoError) => FALSE

C5_Witness ==
    /\ pc = "pa_notify"
    /\ ri = 2
    /\ Progress = 8
    /\ ledgerRx.innerTransaction.signatures = <<"GMAIN">>

\* C6: every envelope the ledger receives wraps an inner transaction of
\* exactly two operations, the claim of the record being processed and then
\* the payment of that record's amount, in the native asset, to the
\* account's receiverAddress; its declared fee is zero, its timeout 60 s.
C6_ClaimThenPayment ==
    ledgerRx # NoTx =>
        LET inner == ledgerRx.innerTransaction
        IN  /\ Len(inner.operations) = 2
            /\ inner.operations[1] =
                  [op |-> "claimClaimableBalance", balanceId |-> claimables[ri].id]
            /\ inner.operations[2] =
                  [op |-> "payment", destination |-> accounts[idx].receiverAddress,
                   asset |-> "native", amount |-> claimables[ri].amount]
            /\ inner.fee = "0"
            /\ inner.timeout = 60

C6_Witness ==
    /\ pc = "pa_submit_wait"
    /\ ri = 2
    /\ ledgerRx.innerTransaction.operations[1].balanceId = "BAL2"
    /\ ledgerRx.innerTransaction.operations[2].amount = "3.0000000"

\* The number a string of decimal digits denotes.
RECURSIVE DecimalValue(_)
DecimalValue(digits) ==
    IF digits = <<>> THEN 0
    ELSE 10 * DecimalValue(SubSeq(digits, 1, Len(digits) - 1)) + digits[Len(digits)]

\* What the envelope of a record declares, as the code and the ledger library
\* make it: the base fee answered for the record, times FeeMultiplier, times
\* the inner transaction's operations plus one.
DeclaredFeeIsPerOperation ==
    /\ feeBumpTransaction # NoTx =>
          DecimalValue(feeBumpTransaction.fee) =
             FeeMultiplier * feeResp * (Len(innerTransaction.operations) + 1)
    /\ ledgerRx # NoTx =>
          DecimalValue(ledgerRx.fee) =
             FeeMultiplier * feeResp * (Len(ledgerRx.innerTransaction.operations) + 1)

\* C7: the fee-bump transaction built for a record, and the envelope submitted
\* for it, declare a fee of exactly 120 times the base fee the ledger answered
\* for that record.
C7_FeeIs120TimesBaseFee ==
    /\ feeBumpTransaction # NoTx =>
          DecimalValue(feeBumpTransaction.fee) = 120 * feeResp
    /\ ledgerRx # NoTx =>
          DecimalValue(ledgerRx.fee) = 120 * feeResp

\* C8: for an account whose main or sponsor mnemonic is present but fails
\* validation, processAccount makes no ledger call, signs nothing and sends
\* no notification; with the configuration otherwise complete the call ends
\* in the catch block with the invalid-mnemonic error of the derivation.
C8_InvalidMnemonicStopsAccount ==
    (InCall /\ (  (~Missing(account.mainMnemonic) /\ ~WellFormed(account.mainMnemonic))
               \/ (~Missing(account.sponsorMnemonic) /\ ~WellFormed(account.sponsorMnemonic))))
    =>  /\ NoLedgerCall
        /\ NothingSignedOrSent
        /\ mainKeypair = NoKeypair /\ sponsorKeypair = NoKeypair
        /\ sponsorWallet = NoKeypair
        /\ ~WellFormed(account.mainMnemonic) => mainWallet = NoKeypair
        /\ pc \in {"pa_identify", "pa_validate", "pa_derive", "pa_main_seed",
                   "pa_main_wallet", "pa_derive_sponsor", "pa_catch",
                   "pa_return", "pa_throw", "fatal"}
        /\ ~RequiredMissing(account) =>
              /\ pc \notin {"pa_throw", "fatal"}
              /\ pc \in {"pa_catch", "pa_return"} =>
                    /\ e.message = "Mnemonic tidak valid"
                    /\ e.at = IF WellFormed(account.mainMnemonic)
                              THEN "deriveSponsor" ELSE "deriveMain"
              /\ pc = "pa_return" => ret = "caught" /\ lastLog.cat = "error"

C8_Witness ==
    /\ pc = "pa_return"
    /\ ret = "caught"
    /\ account.mainMnemonic = GoodMain
    /\ account.sponsorMnemonic = BadMnemonic
    /\ e.at = "deriveSponsor"

\* C9: when the claimable-balance query answers with zero records,
\* processAccount has returned through the "nothing to claim" branch and not
\* through the catch block, having loaded no account, built and signed
\* nothing, fetched no fee, submitted nothing and notified no one.
C9_EmptyAnswerDoesNothing ==
    (InCall /\ lastQuery.answer = "records" /\ Len(claimables) = 0) =>
        /\ pc = "pa_return"
        /\ ret = "empty"
        /\ e = NoError
        /\ lastLog.cat = "no_claimable"
        /\ calls.query = 1
        /\ calls.load = 0 /\ calls.fee = 0 /\ calls.submit = 0
        /\ NothingSignedOrSent
        /\ mainAccount = NoAccount /\ innerTransaction = NoTx
        /\ feeBumpTransaction = NoTx /\ ledgerRx = NoTx /\ posted = NoMessage

C9_Witness ==
    /\ pc = "pa_return"
    /\ lastQuery.answer = "records"
    /\ claimables = <<>>
    /\ ret = "empty"

\* C10: a call that ended on a failed submission logged "rate limited" if
\* and only if the error carried a response with status 429, and the generic
\* error otherwise; the failed submission was sent once: the call made one
\* submission per record up to and including the failing one, no more.
C10_RateLimitClassified ==
    (pc = "pa_return" /\ ret = "caught" /\ e.at = "submitTransaction") =>
        /\ (e.response /\ e.status = 429) => lastLog.cat = "rate_limited"
        /\ ~(e.response /\ e.status = 429) =>
              /\ lastLog.cat = "error"
              /\ lastLog.detail = IF e.response /\ e.result_codes
                                  THEN "result_codes" ELSE e.message
        /\ lastLog.who = accountIdentifier
        /\ calls.submit = ri
        /\ result = NoResult

C10_Witness ==
    /\ pc = "pa_return"
    /\ e.at = "submitTransaction"
    /\ e.status = 429
    /\ lastLog.cat = "rate_limited"
    /\ ri = 2
    /\ calls.submit = 2

\* One step of the program around a notification whose POST fails.
C11_Step ==
    /\ pc = "pa_post_wait" =>
          /\ pc' = "pa_for"
          /\ e' = NoError /\ e = NoError
          /\ result' = result /\ result # NoResult
          /\ ret' = "none"
          /\ calls' = calls
          /\ posted' = posted
    /\ lastLog'.cat = "telegram_failed" =>
          /\ pc' # "pa_catch"
          /\ pc' \in {"pa_for", "pa_return"} =>
                /\ e' = NoError
                /\ calls'.post = ri' /\ calls'.submit = ri'
                /\ pc' = "pa_return" => ret' = "done"
    /\ (pc = "pa_for" /\ lastLog.cat = "telegram_failed") =>
          IF ri < Len(claimables)
          THEN pc' = "pa_load" /\ ri' = ri + 1 /\ e' = NoError
          ELSE pc' = "pa_return" /\ ret' = "done" /\ e' = NoError
    /\ (pc = "pa_return" /\ lastLog.cat = "telegram_failed") =>
          pc' = "for_accounts" /\ idx' = idx + 1 /\ prevFailure' = "none"
    /\ (pc = "for_accounts" /\ lastLog.cat = "telegram_failed"
          /\ idx <= Len(accounts)) => pc' = "pa_identify"

\* C11: a failed notification POST is absorbed inside sendTelegramMessage:
\* the call returns to processAccount without an error and without a second
\* POST, the record keeps its result, the catch block is not entered, and
\* the next steps are the next record, the normal return of the call and the
\* call for the next account.
C11_NotificationFailureAbsorbed == [][C11_Step]_vars

C11_Witness ==
    /\ pc = "pa_return"
    /\ ret = "done"
    /\ lastLog.cat = "telegram_failed"
    /\ ri = 2
    /\ calls.post = 2
    /\ e = NoError

\* C12: the notifier has been called once for each submission the ledger
\* accepted, the call for a record coming after that record's result; what
\* the messaging API receives for a record carries the account's name, that
\* record's amount and the hash the ledger returned for it.  A record whose
\* submission was rejected, an empty answer and a skipped account produce
\* no call of the notifier.
C12_OneNotificationPerAcceptedSubmission ==
    LET justAccepted == IF pc = "pa_notify" THEN 1 ELSE 0
    IN  /\ calls.notify = calls.accepted - justAccepted
        /\ calls.accepted <= calls.submit
        /\ calls.post <= calls.notify
        /\ pc \in {"pa_notify", "pa_post_wait"} =>
              /\ result # NoResult
              /\ calls.accepted = ri
              /\ calls.submit = ri
        /\ posted # NoMessage =>
              /\ result # NoResult
              /\ posted.name = accounts[idx].name
              /\ posted.amount = claimables[ri].amount
              /\ posted.hash = result.hash
              /\ calls.post = ri
        /\ e.at = "submitTransaction" =>
              /\ calls.accepted = ri - 1
              /\ calls.notify = ri - 1
              /\ posted = NoMessage
        /\ (pc = "pa_return" /\ ret \in {"empty", "incomplete"}) =>
              calls.notify = 0 /\ calls.post = 0 /\ posted = NoMessage
        /\ (pc = "pa_return" /\ ret = "done") =>
              calls.notify = Len(claimables)

C12_Witness ==
    /\ pc = "pa_post_wait"
    /\ ri = 2
    /\ calls.accepted = 2
    /\ calls.notify = 2
    /\ posted.amount = "3.0000000"
    /\ posted.hash = result.hash

\* The account list is absent, unparsable or empty.
ListUnusable ==
    \/ fileState \in {"missing", "malformed"}
    \/ fileState = "parsed" /\ accounts = <<>>

\* The first half of C13 alone: with the list absent, unparsable or empty
\* the program goes from the start to the stop and nowhere else.
StopsBeforeLoop ==
    ListUnusable =>
        /\ pc \in {"start", "stopped"}
        /\ cycle = 0 /\ idx = 0
        /\ calls = NoCalls /\ lastQuery = NoQuery /\ ledgerRx = NoTx

\* C13: with the account list absent, unparsable or empty the orchestrator
\* stops before the loop (no cycle, no call of processAccount, no ledger
\* call), and whenever the orchestrator has stopped, that is the reason.
C13_StopsOnlyOnUnusableList ==
    /\ StopsBeforeLoop
    /\ pc \in {"stopped", "fatal"} => ListUnusable

\* The network call the thread is waiting for at each await.
AwaitedCall ==
    CASE pc = "pa_query_wait" -> {"query"}
      [] pc = "pa_load_wait" -> {"loadAccount"}
      [] pc = "pa_fee_wait" -> {"fetchBaseFee"}
      [] pc = "pa_submit_wait" -> {"submitTransaction"}
      [] pc = "pa_post_wait" -> {"post"}
      [] OTHER -> {}

\* C14: at most one network call is outstanding, and only while the thread
\* waits for it; the calls of processAccount made so far in a cycle are for
\* positions 1, 2, ... of the list in that order, each once, the account
\* being processed being the last of them; a call starts only after the
\* call before it returned, and a new cycle starts only when the call for
\* the last position has returned.
C14_StrictlySequential ==
    /\ Cardinality(outstanding) <= 1
    /\ outstanding = AwaitedCall
    /\ started = [i \in 1..Len(started) |-> i]
    /\ Len(started) <= Len(accounts)
    /\ InCall => Len(started) = idx
    /\ pc = "for_accounts" =>
          /\ Len(started) = idx - 1
          /\ ret = "none" /\ calls = NoCalls
    /\ (pc = "cycle_start" /\ cycle >= 1) =>
          /\ Len(started) = Len(accounts)
          /\ idx = Len(accounts) + 1
          /\ ret = "none" /\ calls = NoCalls
    /\ (pc = "cycle_start" /\ cycle = 0) => started = <<>>

C14_Witness ==
    /\ cycle = 2
    /\ pc = "pa_post_wait"
    /\ idx = 2
    /\ started = <<1, 2>>
    /\ outstanding = {"post"}
    /\ ri = 2

\* C15: with a parsed, non-empty list, and every step that is possible
\* eventually taken, processAccount is entered for every position of the
\* list again and again, for ever.
C15_EveryAccountProcessedForever ==
    \A i \in 1..MaxAccounts :
        []<>(\/ fileState # "parsed"
             \/ i > Len(accounts)
             \/ (pc = "pa_identify" /\ idx = i))

CredentialUnset == env.botToken = Undefined \/ env.chatId = Undefined

\* One step of the program with a credential unset: no POST exists, and the
\* call of the notifier changes nothing but the count of its calls.
C16_Step ==
    CredentialUnset =>
        /\ calls'.post = 0
        /\ posted' = NoMessage
        /\ "post" \notin outstanding'
        /\ pc' # "pa_post_wait"
        /\ lastLog'.cat # "telegram_failed"
        /\ pc = "pa_notify" =>
              /\ pc' = "pa_for"
              /\ calls' = [calls EXCEPT !.notify = @ + 1]
              /\ e' = NoError /\ e = NoError
              /\ result' = result /\ result # NoResult
              /\ lastLog' = lastLog /\ lastLog.cat = "success"
              /\ UNCHANGED <<config, cycle, idx, accountIdentifier, wallets,
                             mainKeypair, sponsorKeypair, claimables, ri, ret,
                             lastQuery, perRecord, prevFailure, history>>
        /\ (pc = "pa_for" /\ calls.notify = ri /\ ri >= 1) =>
              IF ri < Len(claimables)
              THEN pc' = "pa_load" /\ ri' = ri + 1
              ELSE pc' = "pa_return" /\ ret' = "done"

\* C16: with the bot token or the chat identifier unset, sendTelegramMessage
\* sends no POST, raises nothing and returns at once: the step from the
\* notification goes straight to the head of the record loop with the
\* result, the error slot, the log and every local as they were, and the
\* loop then goes on to the next record or to the normal return, as it does
\* after an answered POST.
C16_NoOpWhenUnset == [][C16_Step]_vars

C16_Witness ==
    /\ pc = "pa_return"
    /\ ret = "done"
    /\ env.botToken = "TOKEN"
    /\ env.chatId = Undefined
    /\ calls.notify = 2
    /\ calls.post = 0
    /\ lastLog.cat = "success"

\* The balance ids of the answer to this call's query.
ReturnedIds == {claimables[i].id : i \in 1..Len(claimables)}

\* One step of the program seen from the ledger: queries and submissions.
C17_Step ==
    /\ calls'.query > calls.query =>
          /\ calls.query = 0 /\ calls'.query = 1
          /\ lastQuery'.limit = 10
          /\ lastQuery'.claimant = "GMAIN"
    /\ calls'.submit > calls.submit =>
          /\ calls'.submit = calls.submit + 1
          /\ calls'.submit = ri
          /\ ledgerRx = NoTx
          /\ ledgerRx'.innerTransaction.operations[1].balanceId = claimables[ri].id
          /\ claimables[ri].id \in ReturnedIds
    /\ (InCall /\ calls.query = 1 /\ pc' # "for_accounts") =>
          /\ calls'.query = 1
          /\ lastQuery'.limit = 10
    /\ calls'.submit <= ri'
    /\ ri' <= Len(claimables')
    /\ Len(claimables') <= 10
    /\ (pc' = "pa_return" /\ ret' \in {"empty", "done"}) => calls'.query = 1
    /\ (pc' = "pa_return" /\ e'.at \in {"query", "loadAccount", "fetchBaseFee",
                                        "submitTransaction"}) => calls'.query = 1

\* C17: in one call of processAccount the query goes out once, with limit
\* 10, and is never repeated; the i-th submission of the call is for the
\* i-th record of the answer and is the only one for it, so submissions
\* never outnumber the records returned, and every balance id submitted is
\* one the query of this call returned.
C17_OneQueryOneSubmissionPerRecord == [][C17_Step]_vars

C17_Witness ==
    /\ pc = "pa_return"
    /\ ret = "done"
    /\ calls.query = 1
    /\ lastQuery.limit = 10
    /\ calls.submit = 2
    /\ Len(claimables) = 2

\* The base fee of the current record has been asked for.
FeeAsked == feeResp # NoFee \/ pc = "pa_fee_wait" \/ e.at = "fetchBaseFee"

\* C18: in one call of processAccount the account loads number the records
\* whose processing has started, and the base-fee fetches the records that
\* came as far as the fetch: one of each per record.  The load of a record
\* goes out when every earlier record has its submission result and nothing
\* is outstanding, the record has no account state yet, and its inner
\* transaction is built on the state this load returned.
C18_LoadAndFeePerRecord ==
    /\ (InCall /\ ri >= 1) =>
          /\ calls.load = IF pc = "pa_load" THEN ri - 1 ELSE ri
          /\ (pc = "pa_return" /\ ret = "done") => calls.fee = ri
          /\ ~(pc = "pa_return" /\ ret = "done") =>
                calls.fee = IF FeeAsked THEN ri ELSE ri - 1
    /\ (InCall /\ ri = 0) => calls.load = 0 /\ calls.fee = 0
    /\ pc = "pa_load" =>
          /\ mainAccount = NoAccount
          /\ calls.submit = ri - 1
          /\ calls.accepted = ri - 1
          /\ outstanding = {}
    /\ pc = "pa_build" =>
          /\ mainAccount # NoAccount
          /\ innerTransaction = NoTx
          /\ calls.load = ri
    /\ innerTransaction # NoTx =>
          /\ mainAccount # NoAccount
          /\ innerTransaction.source = mainAccount.id
          /\ innerTransaction.sequence = mainAccount.sequence + 1
          /\ calls.load = ri

C18_Witness ==
    /\ pc = "pa_sign"
    /\ ri = 2
    /\ calls.load = 2
    /\ calls.fee = 1
    /\ calls.accepted = 1
    /\ innerTransaction.sequence = mainAccount.sequence + 1

\* One step of the program in a call that follows a rejected submission.
C19_Step ==
    /\ pc' = "pa_identify" =>
          /\ accountIdentifier' = NoIdentifier
          /\ mainWallet' = NoKeypair /\ sponsorWallet' = NoKeypair
          /\ mainKeypair' = NoKeypair /\ sponsorKeypair' = NoKeypair
          /\ claimables' = <<>> /\ ri' = 0
          /\ e' = NoError /\ ret' = "none"
          /\ calls' = NoCalls /\ lastQuery' = NoQuery
          /\ mainAccount' = NoAccount /\ innerTransaction' = NoTx
          /\ baseFee' = NoFee /\ feeBumpTransaction' = NoTx
          /\ result' = NoResult /\ ledgerRx' = NoTx
          /\ feeResp' = NoFee /\ posted' = NoMessage
          /\ outstanding' = {}
    /\ (failedBalance # NoBalance /\ InCall /\ ValidlyConfigured(account)) =>
          /\ pc = "pa_identify" => pc' = "pa_validate"
          /\ pc = "pa_validate" => pc' = "pa_derive"
          /\ pc = "pa_derive" => pc' = "pa_main_seed"
          /\ pc = "pa_main_seed" => pc' = "pa_main_wallet"
          /\ pc = "pa_main_wallet" => pc' = "pa_derive_sponsor"
          /\ pc = "pa_derive_sponsor" => pc' = "pa_sponsor_seed"
          /\ pc = "pa_sponsor_seed" => pc' = "pa_sponsor_wallet"
          /\ pc = "pa_sponsor_wallet" => pc' = "pa_keypairs"
          /\ pc = "pa_keypairs" => pc' = "pa_query"
          /\ pc = "pa_query" =>
                pc' = "pa_query_wait" /\ calls'.query = 1 /\ lastQuery'.limit = 10
          /\ (pc = "pa_for" /\ ri = 0 /\ claimables[1].id = failedBalance) =>
                pc' = "pa_load" /\ ri' = 1 /\ lastLog'.cat = "found"
          /\ (ri = 1 /\ claimables[1].id = failedBalance) =>
                /\ pc = "pa_load" => pc' = "pa_load_wait" /\ calls'.load = 1
                /\ pc = "pa_build" => pc' = "pa_sign"
                /\ pc = "pa_sign" => pc' = "pa_fee"
                /\ pc = "pa_fee" => pc' = "pa_fee_wait" /\ calls'.fee = 1
                /\ pc = "pa_bump" => pc' = "pa_signbump"
                /\ pc = "pa_signbump" => pc' = "pa_submit"
                /\ pc = "pa_submit" =>
                      /\ pc' = "pa_submit_wait"
                      /\ calls'.submit = 1
                      /\ ledgerRx'.innerTransaction.operations[1] =
                            [op |-> "claimClaimableBalance",
                             balanceId |-> failedBalance]
                      /\ ledgerRx'.innerTransaction.operations[2].amount =
                            claimables[1].amount
                      /\ ledgerRx'.innerTransaction.sequence =
                            mainAccount.sequence + 1
                      /\ DecimalValue(ledgerRx'.fee) =
                            FeeMultiplier * feeResp
                               * (Len(ledgerRx'.innerTransaction.operations) + 1)

\* C19: every call of processAccount starts from an empty frame, whatever
\* the calls before it did; and in a call that follows a rejected
\* submission, a query that returns the rejected balance first leads, step
\* by step, to that balance being found, loaded for, built, signed and
\* submitted again, with the envelope made from this call's answers alone.
C19_NothingCarriedOver == [][C19_Step]_vars

C19_Witness ==
    /\ Len(accounts) = 1
    /\ cycle = 2
    /\ failedBalance = "BAL1"
    /\ pc = "pa_submit_wait"
    /\ ri = 1
    /\ calls.submit = 1
    /\ ledgerRx.innerTransaction.operations[1].balanceId = "BAL1"

====
